---- MODULE Spec2Model ----
(***************************************************************************)
(* Stream registry and session relay of the WebRTC live-streaming server   *)
(* (src/src/controllers/streamController.js, src/server.js).               *)
(*                                                                         *)
(* JavaScript strings are modelled as sequences of one-character strings,  *)
(* so that String.prototype.trim and truthiness are computed, not assumed. *)
(* The values undefined and null are the one-element sequences Undefined   *)
(* and Null, whose element is not a character of the alphabet.             *)
(*                                                                         *)
(* The registry is the plain object  const streams = {} : a property read  *)
(* streams[k] sees the object's own properties and those it inherits, and  *)
(* the key "__proto__" is the accessor of Object.prototype that reads and  *)
(* writes the object's prototype instead of an own property.               *)
(***************************************************************************)
EXTENDS Integers, Sequences, FiniteSets, TLC

\* ---------------------------------------------------------------- bounds
\* Number of sockets that ever connect (socket ids are never reused). One
\* socket can host and view at once, so two sockets already give a host with
\* a viewer of its own, a second host and a viewer that switches streams.
NConn == 2
\* Number of client events (disconnects included) the relay processes in one
\* behaviour of Spec and of SpecRelay.
MaxEvents == 3
\* The same number for SpecDeep, whose behaviours are one event longer.
MaxDeepEvents == 4

Conns == 1..NConn

\* Number of host pages and of viewer pages that are ever opened under
\* SpecPages, and the number of clicks (start or stop streaming, watch, stop
\* watching) their users make.
NHostPage == 2
NViewerPage == 1
MaxClicks == 4
\* Number of events the relay processes in one behaviour of SpecPages; it is
\* larger than what MaxClicks clicks can cause.
MaxPageEvents == 16

\* The sockets of the model: those of Spec, or those of the pages of SpecPages.
Sockets == 1..(IF NConn > NHostPage + NViewerPage THEN NConn
               ELSE NHostPage + NViewerPage)

\* ------------------------------------------------------- JavaScript values
Undefined == <<"undefined">>
Null == <<"null">>
SP == " "
\* A number such as 5: a truthy value that is not a string.
ANumber == <<"number">>

\* JavaScript truthiness of undefined, null or a string.
Truthy(v) == v # Undefined /\ v # Null /\ v # <<>>

RECURSIVE TrimStart(_)
TrimStart(s) == IF s # <<>> /\ Head(s) = SP THEN TrimStart(Tail(s)) ELSE s

RECURSIVE TrimEnd(_)
TrimEnd(s) ==
    IF s # <<>> /\ s[Len(s)] = SP THEN TrimEnd(SubSeq(s, 1, Len(s) - 1)) ELSE s

\* String.prototype.trim
Trim(s) == TrimEnd(TrimStart(s))

\* ------------------------------------------------------------ event inputs
\* The string "__proto__".
DunderProto == <<"_", "_", "p", "r", "o", "t", "o", "_", "_">>

\* streamId fields a client sends: missing, "", " ", "a", " a", "b" and
\* "__proto__".
StreamIdInputs ==
    {Undefined, <<>>, <<SP>>, <<"a">>, <<SP, "a">>, <<"b">>, DunderProto}
\* title fields a client sends: missing, " ", " t".
TitleInputs == {Undefined, <<SP>>, <<SP, "t">>}
\* user fields a client sends: missing, or an object with a displayName.
NoUser == [defined |-> FALSE, displayName |-> Undefined, avatarUrl |-> Undefined]
UserInputs ==
    {NoUser, [defined |-> TRUE, displayName |-> <<"n">>, avatarUrl |-> Undefined]}

\* title fields of a type other than the documented string.
UntypedTitleInputs == {ANumber}

\* The events whose handler destructures its payload parameter.
PayloadEvents ==
    {"create-stream", "viewer-join-stream", "host-offer", "viewer-answer",
     "ice-candidate"}

\* The opaque offer, answer or candidate of a signalling event.
PayloadInputs == {"p1", "p2"}

\* ------------------------------------------------------------------- state
VARIABLES
    connected,  \* sockets whose connection is open
    gone,       \* sockets that have disconnected
    sock,       \* per-socket fields isHost, streamId, isViewer, currentStreamId, viewerInfo
    streams,    \* the registry object: own entries in Object.entries order, and
                \* the entry that is its prototype (none: Object.prototype)
    out,        \* the messages the last handler emitted, in emission order
    last,       \* the event the last handler processed and the branch it took
    crashed,    \* an exception escaped a handler and ended the process
    budget,     \* number of client events still to be processed in this behaviour
    page,       \* per socket, the state of the browser page that opened it
    up,         \* per socket, the events sent by the page and not yet handled
    down,       \* per socket, the messages sent to the page and not yet handled
    clicks      \* number of clicks the users may still make

relayVars == <<connected, gone, sock, streams, out, last, crashed, budget>>
pageVars == <<page, up, down, clicks>>
vars == <<connected, gone, sock, streams, out, last, crashed, budget,
          page, up, down, clicks>>

\* Address of io.emit (every open socket).
ALL == 0

\* Address of res.json (the HTTP client of the request, which is no socket).
HTTP == -1

\* ------------------------------------------------- the registry (an object)
\* const streams = {}
EmptyRegistry == [own |-> <<>>, proto |-> <<>>]

\* Object.keys(streams): the own properties.
Keys(reg) == {reg.own[i].streamId : i \in 1..Len(reg.own)}

\* streams[k] is truthy: an own entry, or for "__proto__" the prototype
\* (Object.prototype, or the entry a create-stream put in its place).
Has(reg, k) == k \in Keys(reg) \/ k = DunderProto

\* streams[k] is a stream entry (it has hostId, title and viewers).
HasEntry(reg, k) == k \in Keys(reg) \/ (k = DunderProto /\ reg.proto # <<>>)

\* streams[k], when it is a stream entry.
Get(reg, k) ==
    IF k = DunderProto THEN reg.proto[1]
    ELSE reg.own[CHOOSE i \in 1..Len(reg.own) : reg.own[i].streamId = k]

\* An assignment that keeps the viewers of the entry it replaces.
PutKeepsViewers(reg, entry) ==
    LET kept == IF HasEntry(reg, entry.streamId)
                THEN [entry EXCEPT !.viewers = Get(reg, entry.streamId).viewers]
                ELSE entry
    IN IF kept.streamId = DunderProto THEN [reg EXCEPT !.proto = <<kept>>]
       ELSE IF kept.streamId \in Keys(reg)
       THEN [reg EXCEPT !.own =
               [i \in 1..Len(reg.own) |->
                   IF reg.own[i].streamId = kept.streamId THEN kept ELSE reg.own[i]]]
       ELSE [reg EXCEPT !.own = Append(@, kept)]

\* streams[k] = entry: "__proto__" sets the prototype; otherwise an existing
\* own key keeps its place and a new key goes last.
Put(reg, entry) ==
    IF entry.streamId = DunderProto THEN [reg EXCEPT !.proto = <<entry>>]
    ELSE IF entry.streamId \in Keys(reg)
    THEN [reg EXCEPT !.own =
            [i \in 1..Len(reg.own) |->
                IF reg.own[i].streamId = entry.streamId THEN entry ELSE reg.own[i]]]
    ELSE [reg EXCEPT !.own = Append(@, entry)]

RECURSIVE Without(_, _)
Without(entries, k) ==
    IF entries = <<>> THEN <<>>
    ELSE IF Head(entries).streamId = k THEN Without(Tail(entries), k)
    ELSE <<Head(entries)>> \o Without(Tail(entries), k)

\* delete streams[k]: removes an own property, never the prototype.
Del(reg, k) == [reg EXCEPT !.own = Without(@, k)]

\* Every stream entry reachable as streams[k].
Entries(reg) == reg.own \o reg.proto

\* --------------------------------------------------- the viewers Map
ViewerIds(vs) == {vs[i].socketId : i \in 1..Len(vs)}

\* A viewers collection that is pushed to, whatever it already holds.
MapSetAppends(vs, info) == Append(vs, info)

\* Map.prototype.set: an existing key keeps its place, a new key goes last.
MapSet(vs, info) ==
    IF info.socketId \in ViewerIds(vs)
    THEN [i \in 1..Len(vs) |->
            IF vs[i].socketId = info.socketId THEN info ELSE vs[i]]
    ELSE Append(vs, info)

RECURSIVE MapDelete(_, _)
\* Map.prototype.delete
MapDelete(vs, id) ==
    IF vs = <<>> THEN <<>>
    ELSE IF Head(vs).socketId = id THEN MapDelete(Tail(vs), id)
    ELSE <<Head(vs)>> \o MapDelete(Tail(vs), id)

\* The registry with viewer id removed from the viewers of the entry
\* streams[k].
DeleteViewer(reg, k, id) ==
    LET del(entries) ==
            [i \in 1..Len(entries) |->
                IF entries[i].streamId = k
                THEN [entries[i] EXCEPT !.viewers = MapDelete(@, id)]
                ELSE entries[i]]
    IN [own |-> del(reg.own), proto |-> del(reg.proto)]

\* A join that also records the joining socket as the host of the stream.
SetViewerTakesHost(reg, k, info) ==
    LET set(entries) ==
            [i \in 1..Len(entries) |->
                IF entries[i].streamId = k
                THEN [entries[i] EXCEPT !.viewers = MapSet(@, info),
                                        !.hostId = info.socketId]
                ELSE entries[i]]
    IN [own |-> set(reg.own), proto |-> set(reg.proto)]

\* The registry with viewer info set in the viewers of the entry streams[k].
SetViewer(reg, k, info) ==
    LET set(entries) ==
            [i \in 1..Len(entries) |->
                IF entries[i].streamId = k
                THEN [entries[i] EXCEPT !.viewers = MapSet(@, info)]
                ELSE entries[i]]
    IN [own |-> set(reg.own), proto |-> set(reg.proto)]

\* --------------------------------------------------------------- messages
Msg(to, ev, body) == [to |-> to, ev |-> ev, body |-> body]

\* getPublicStreams: one {streamId, title, hostId} per own property of the
\* registry, in Object.entries order.
getPublicStreams(reg) ==
    [i \in 1..Len(reg.own) |->
        [streamId |-> reg.own[i].streamId, title |-> reg.own[i].title,
         hostId |-> reg.own[i].hostId]]

\* JavaScript's  v || null  on a string, null or undefined.
OrNull(v) == IF Truthy(v) THEN v ELSE Null

\* The viewers Map as the array of plain objects sent over the wire.
ViewersArray(vs) ==
    [i \in 1..Len(vs) |->
        [socketId |-> vs[i].socketId,
         displayName |-> OrNull(vs[i].displayName),
         avatarUrl |-> OrNull(vs[i].avatarUrl)]]

\* A viewer-list update that is broadcast instead of sent to the host.
sendViewerListUpdateToAll(reg, streamId) ==
    IF ~Has(reg, streamId) THEN <<>>
    ELSE LET viewersArray == ViewersArray(Get(reg, streamId).viewers)
         IN <<Msg(ALL, "viewer-list-update",
                  [streamId |-> streamId,
                   count |-> Len(viewersArray),
                   viewers |-> viewersArray])>>

\* sendViewerListUpdate: the messages it emits for streamId (none if absent).
sendViewerListUpdate(reg, streamId) ==
    IF ~Has(reg, streamId) THEN <<>>
    ELSE LET stream == Get(reg, streamId)
             viewersArray == ViewersArray(stream.viewers)
         IN <<Msg(stream.hostId, "viewer-list-update",
                  [streamId |-> streamId,
                   count |-> Len(viewersArray),
                   viewers |-> viewersArray])>>

\* stream-ended to every viewer of the stream, in Map order.
StreamEndedMsgs(stream) ==
    [i \in 1..Len(stream.viewers) |->
        Msg(stream.viewers[i].socketId, "stream-ended",
            [streamId |-> stream.streamId])]

\* ------------------------------------------------------------------ sockets
NoInfo(kind) ==
    [kind |-> kind, socketId |-> 0, displayName |-> Null, avatarUrl |-> Null]

FreshSocket ==
    [isHost |-> FALSE, streamId |-> Undefined,
     isViewer |-> FALSE, currentStreamId |-> Undefined,
     viewerInfo |-> NoInfo("undefined")]

\* The event a handler was called for, the socket it arrived on, and the
\* branch of the handler that ran.
Event(op, c, path) == [op |-> op, conn |-> c, path |-> path]

NoEvent == Event("none", 0, "none")

\* No page has been opened (let pc = null, let currentStreamId = null, ...).
NoPage ==
    [kind |-> "none",
     localStream |-> FALSE, streaming |-> FALSE, streamIdInput |-> <<>>,
     peerConnections |-> {}, stable |-> {}, offering |-> {},
     currentStreamId |-> Null, currentHostId |-> 0, pc |-> 0,
     answering |-> {}, list |-> {}]

\* The server has started: no socket has connected, the registry is empty.
Started ==
    /\ connected = {}
    /\ gone = {}
    /\ sock = [c \in Sockets |-> FreshSocket]
    /\ page = [c \in Sockets |-> NoPage]
    /\ up = [c \in Sockets |-> <<>>]
    /\ down = [c \in Sockets |-> <<>>]
    /\ streams = EmptyRegistry
    /\ out = <<>>
    /\ last = NoEvent
    /\ crashed = FALSE

Init == Started /\ budget = MaxEvents /\ clicks = 0

InitDeep == Started /\ budget = MaxDeepEvents /\ clicks = 0

\* One more client event of an open socket is dispatched to its handler.
Dispatch(c) ==
    /\ ~crashed
    /\ c \in connected
    /\ budget > 0
    /\ budget' = budget - 1

\* io.on('connection'): a socket with a fresh id opens. Ids are opaque, so
\* the sockets are numbered in the order in which they connect.
Connect(c) ==
    /\ ~crashed
    /\ c = Cardinality(connected \cup gone) + 1
    /\ connected' = connected \cup {c}
    /\ out' = <<>>
    /\ last' = Event("connection", c, "opened")
    /\ UNCHANGED <<gone, sock, streams, crashed, budget>>

\* get-streams: sendStreamList replies to the requester.
GetStreams(c) ==
    /\ Dispatch(c)
    /\ last' = Event("get-streams", c, "listed")
    /\ out' = <<Msg(c, "stream-list", [list |-> getPublicStreams(streams)])>>
    /\ UNCHANGED <<connected, gone, sock, streams, crashed>>

\* GET /api/streams: the route replies { streams: getPublicStreams() } to the
\* HTTP client. A request takes no socket; it counts as a client event.
GetApiStreams ==
    /\ ~crashed
    /\ budget > 0
    /\ budget' = budget - 1
    /\ last' = Event("GET /api/streams", HTTP, "listed")
    /\ out' = <<Msg(HTTP, "200", [streams |-> getPublicStreams(streams)])>>
    /\ UNCHANGED <<connected, gone, sock, streams, crashed>>

\* createStream's guard  if (!streamId)
MissingStreamId(streamId) == ~Truthy(streamId)

\* const trimmedId = String(streamId).trim()
TrimmedId(streamId) == Trim(streamId)

\* const streamTitle = title && title.trim() ? title.trim() : trimmedId
StreamTitle(title, trimmedId) ==
    IF Truthy(title) /\ Truthy(Trim(title)) THEN Trim(title) ELSE trimmedId

\* title.trim is not a function: the title is truthy and has no trim method.
TitleThrows(title) == Truthy(title) /\ title = ANumber

\* The entry createStream stores.
NewStream(c, trimmedId, streamTitle) ==
    [streamId |-> trimmedId, hostId |-> c, title |-> streamTitle, viewers |-> <<>>]

\* create-stream. A truthy title that is not a string makes  title.trim()
\* throw a TypeError that no handler catches, before anything is stored.
CreateStream(c, streamId, title) ==
    /\ Dispatch(c)
    /\ last' = Event("create-stream", c,
                     IF MissingStreamId(streamId) THEN "rejected"
                     ELSE IF TitleThrows(title) THEN "threw"
                     ELSE IF HasEntry(streams, TrimmedId(streamId)) THEN "overwrote"
                     ELSE "created")
    /\ crashed' = (~MissingStreamId(streamId) /\ TitleThrows(title))
    /\ IF MissingStreamId(streamId)
       THEN /\ out' = <<Msg(c, "error-message",
                            [message |-> "Stream ID is required."])>>
            /\ UNCHANGED <<sock, streams>>
       ELSE IF TitleThrows(title)
       THEN /\ out' = <<>>
            /\ UNCHANGED <<sock, streams>>
       ELSE LET trimmedId == TrimmedId(streamId)
                streamTitle == StreamTitle(title, trimmedId)
                reg == Put(streams, NewStream(c, trimmedId, streamTitle))
            IN /\ streams' = reg
               /\ sock' = [sock EXCEPT ![c].isHost = TRUE,
                                       ![c].streamId = trimmedId]
               /\ out' = <<Msg(c, "stream-created",
                               [streamId |-> trimmedId, title |-> streamTitle]),
                           Msg(ALL, "stream-added",
                               [streamId |-> trimmedId, title |-> streamTitle])>>
                         \o sendViewerListUpdate(reg, trimmedId)
    /\ UNCHANGED <<connected, gone>>

\* endStream's guard  if (!socket.isHost || !socket.streamId) return
NotHosting(s) == ~s.isHost \/ ~Truthy(s.streamId)

\* endStream on the socket fields s: whether it went past its two early
\* returns, the registry it leaves and the messages it emits.
EndStreamEffect(reg, s) ==
    IF NotHosting(s) \/ ~Has(reg, s.streamId)
    THEN [ended |-> FALSE, reg |-> reg, msgs |-> <<>>]
    ELSE [ended |-> TRUE,
          reg |-> Del(reg, s.streamId),
          msgs |-> StreamEndedMsgs(Get(reg, s.streamId))
                   \o <<Msg(ALL, "stream-removed", [streamId |-> s.streamId])>>]

\* An end-stream handler that forgets to reset the socket's host fields.
EndStreamStaysHost(c) ==
    /\ Dispatch(c)
    /\ LET e == EndStreamEffect(streams, sock[c])
       IN /\ last' = Event("end-stream", c, IF e.ended THEN "ended" ELSE "ignored")
          /\ out' = e.msgs
          /\ streams' = e.reg
          /\ sock' = sock
    /\ UNCHANGED <<connected, gone, crashed>>

\* end-stream
EndStream(c) ==
    /\ Dispatch(c)
    /\ LET e == EndStreamEffect(streams, sock[c])
       IN /\ last' = Event("end-stream", c, IF e.ended THEN "ended" ELSE "ignored")
          /\ out' = e.msgs
          /\ streams' = e.reg
          /\ sock' = IF e.ended
                     THEN [sock EXCEPT ![c].streamId = Null, ![c].isHost = FALSE]
                     ELSE sock
    /\ UNCHANGED <<connected, gone, crashed>>

\* viewerJoinStream's  if (socket.currentStreamId && socket.currentStreamId !== streamId)
WatchingAnother(s, streamId) ==
    Truthy(s.currentStreamId) /\ s.currentStreamId # streamId

\* The viewerInfo object built from the user field of the payload.
ViewerInfo(c, user) ==
    [kind |-> "object", socketId |-> c,
     displayName |-> IF user.defined /\ Truthy(user.displayName)
                     THEN user.displayName ELSE Null,
     avatarUrl |-> IF user.defined /\ Truthy(user.avatarUrl)
                   THEN user.avatarUrl ELSE Null]

\* viewerJoinStream's  if (!stream) { emit error-message; return }
JoinRefused(c) ==
    /\ out' = <<Msg(c, "error-message",
                    [message |-> "Stream not found or has ended."])>>
    /\ UNCHANGED <<sock, streams>>

\* viewer-join-stream. When streamId is "__proto__" and no create-stream has
\* replaced the prototype, stream is Object.prototype: it is truthy, the old
\* stream is detached, and  stream.viewers.set  throws a TypeError that no
\* handler catches.
ViewerJoinStream(c, streamId, user) ==
    /\ Dispatch(c)
    /\ IF ~Has(streams, streamId)
       THEN /\ last' = Event("viewer-join-stream", c, "refused")
            /\ JoinRefused(c)
            /\ UNCHANGED crashed
       ELSE LET oldStreamId == sock[c].currentStreamId
                detach == WatchingAnother(sock[c], streamId)
                          /\ Has(streams, oldStreamId)
                reg1 == IF detach THEN DeleteViewer(streams, oldStreamId, c)
                        ELSE streams
                left == IF detach
                        THEN <<Msg(Get(streams, oldStreamId).hostId, "viewer-left",
                                   [viewerId |-> c])>>
                             \o sendViewerListUpdate(reg1, oldStreamId)
                        ELSE <<>>
                viewerInfo == ViewerInfo(c, user)
                reg2 == SetViewer(reg1, streamId, viewerInfo)
            IN IF ~HasEntry(streams, streamId)
               THEN /\ last' = Event("viewer-join-stream", c, "threw")
                    /\ streams' = reg1
                    /\ out' = left
                    /\ crashed' = TRUE
                    /\ UNCHANGED sock
               ELSE /\ last' = Event("viewer-join-stream", c,
                                     IF detach THEN "switched"
                                     ELSE IF c \in ViewerIds(Get(streams, streamId).viewers)
                                          THEN "rejoined"
                                          ELSE "joined")
                    /\ streams' = reg2
                    /\ sock' = [sock EXCEPT ![c].currentStreamId = streamId,
                                            ![c].isViewer = TRUE,
                                            ![c].viewerInfo = viewerInfo]
                    /\ out' = left
                              \o <<Msg(Get(reg2, streamId).hostId, "new-viewer",
                                       [viewerId |-> c])>>
                              \o sendViewerListUpdate(reg2, streamId)
                    /\ UNCHANGED crashed
    /\ UNCHANGED <<connected, gone>>

\* The registry and messages after a viewer is removed from the stream it
\* watches, when that stream exists (viewerLeaveStream and handleDisconnect).
RemoveViewer(reg, c, streamId) ==
    IF Has(reg, streamId)
    THEN LET reg1 == DeleteViewer(reg, streamId, c)
         IN [reg |-> reg1,
             msgs |-> <<Msg(Get(reg, streamId).hostId, "viewer-left",
                            [viewerId |-> c])>>
                      \o sendViewerListUpdate(reg1, streamId)]
    ELSE [reg |-> reg, msgs |-> <<>>]

\* viewerLeaveStream on the socket fields s of socket c: whether it went past
\* its early return, the registry it leaves and the messages it emits.
LeaveEffect(reg, c, s) ==
    IF ~Truthy(s.currentStreamId)
    THEN [unbound |-> FALSE, reg |-> reg, msgs |-> <<>>]
    ELSE LET r == RemoveViewer(reg, c, s.currentStreamId)
         IN [unbound |-> TRUE, reg |-> r.reg, msgs |-> r.msgs]

\* viewer-leave-stream
ViewerLeaveStream(c) ==
    /\ Dispatch(c)
    /\ LET e == LeaveEffect(streams, c, sock[c])
       IN /\ last' = Event("viewer-leave-stream", c,
                           IF e.unbound THEN "left" ELSE "ignored")
          /\ streams' = e.reg
          /\ out' = e.msgs
          /\ sock' = IF e.unbound
                     THEN [sock EXCEPT ![c].currentStreamId = Null,
                                       ![c].isViewer = FALSE,
                                       ![c].viewerInfo = NoInfo("null")]
                     ELSE sock
    /\ UNCHANGED <<connected, gone, crashed>>

\* handleDisconnect's  if (socket.isHost && socket.streamId)
WasHost(s) == s.isHost /\ Truthy(s.streamId)

\* handleDisconnect's  if (socket.isViewer && socket.currentStreamId)
WasViewer(s) == s.isViewer /\ Truthy(s.currentStreamId)

\* disconnect: the socket has closed, then handleDisconnect runs.
Disconnect(c) ==
    /\ Dispatch(c)
    /\ connected' = connected \ {c}
    /\ gone' = gone \cup {c}
    /\ last' = Event("disconnect", c, "closed")
    /\ LET hostEnds == WasHost(sock[c]) /\ Has(streams, sock[c].streamId)
           reg1 == IF hostEnds THEN Del(streams, sock[c].streamId) ELSE streams
           ended == IF hostEnds
                    THEN StreamEndedMsgs(Get(streams, sock[c].streamId))
                         \o <<Msg(ALL, "stream-removed",
                                  [streamId |-> sock[c].streamId])>>
                    ELSE <<>>
           r == IF WasViewer(sock[c])
                THEN RemoveViewer(reg1, c, sock[c].currentStreamId)
                ELSE [reg |-> reg1, msgs |-> <<>>]
       IN /\ streams' = r.reg
          /\ out' = ended \o r.msgs
    /\ UNCHANGED <<sock, crashed>>

\* A host-offer handler that emits with io.emit instead of io.to(viewerId).
HostOfferToAll(c, viewerId, offer) ==
    /\ Dispatch(c)
    /\ last' = Event("host-offer", c, "forwarded")
    /\ out' = <<Msg(ALL, "receive-offer", [offer |-> offer, hostId |-> c])>>
    /\ UNCHANGED <<connected, gone, sock, streams, crashed>>

\* host-offer: forwarded to the named viewer with the sender's socket id.
HostOffer(c, viewerId, offer) ==
    /\ Dispatch(c)
    /\ last' = Event("host-offer", c, "forwarded")
    /\ out' = <<Msg(viewerId, "receive-offer", [offer |-> offer, hostId |-> c])>>
    /\ UNCHANGED <<connected, gone, sock, streams, crashed>>

\* viewer-answer: forwarded to the named host with the sender's socket id.
ViewerAnswer(c, hostId, answer) ==
    /\ Dispatch(c)
    /\ last' = Event("viewer-answer", c, "forwarded")
    /\ out' = <<Msg(hostId, "receive-answer", [answer |-> answer, viewerId |-> c])>>
    /\ UNCHANGED <<connected, gone, sock, streams, crashed>>

\* ice-candidate: forwarded to the named target with the sender's socket id.
IceCandidate(c, targetId, candidate) ==
    /\ Dispatch(c)
    /\ last' = Event("ice-candidate", c, "forwarded")
    /\ out' = <<Msg(targetId, "ice-candidate",
                    [candidate |-> candidate, senderId |-> c])>>
    /\ UNCHANGED <<connected, gone, sock, streams, crashed>>

\* An event of PayloadEvents sent without a payload object: destructuring the
\* handler's parameter throws a TypeError that no handler catches.
NoPayload(c, op) ==
    /\ Dispatch(c)
    /\ last' = Event(op, c, "threw")
    /\ out' = <<>>
    /\ crashed' = TRUE
    /\ UNCHANGED <<connected, gone, sock, streams>>

\* A delivery that falls back to every open socket when the room is empty.
RecipientsOrAll(m) ==
    IF m.to = ALL \/ m.to \notin connected THEN connected ELSE {m.to}

\* The open sockets a message reaches: io.emit reaches every open socket,
\* io.to(id) the socket id if it is open, and nobody otherwise.
Recipients(m) == IF m.to = ALL THEN connected ELSE {m.to} \cap connected

\* The socket lifecycle, the stream-control events and the REST query.
Next ==
    /\ UNCHANGED pageVars
    /\ \/ GetApiStreams
       \/ \E c \in Conns :
            \/ Connect(c)
            \/ GetStreams(c)
            \/ \E streamId \in StreamIdInputs, title \in TitleInputs :
                    CreateStream(c, streamId, title)
            \/ EndStream(c)
            \/ \E streamId \in StreamIdInputs, user \in UserInputs :
                    ViewerJoinStream(c, streamId, user)
            \/ ViewerLeaveStream(c)
            \/ Disconnect(c)

\* The signalling events registerWebRTCEvents forwards.
Forward ==
    /\ UNCHANGED pageVars
    /\ \E c \in Conns, t \in Conns, payload \in PayloadInputs :
        \/ HostOffer(c, t, payload)
        \/ ViewerAnswer(c, t, payload)
        \/ IceCandidate(c, t, payload)

\* The stream ids of the events that give sockets their roles under SpecRelay.
RelayStreamIds == {<<"a">>, <<"b">>}

\* The socket lifecycle and the events that make a socket a host or a viewer.
Roles ==
    /\ UNCHANGED pageVars
    /\ \E c \in Conns :
        \/ Connect(c)
        \/ \E streamId \in RelayStreamIds : CreateStream(c, streamId, Undefined)
        \/ EndStream(c)
        \/ \E streamId \in RelayStreamIds : ViewerJoinStream(c, streamId, NoUser)
        \/ ViewerLeaveStream(c)
        \/ Disconnect(c)

NextRelay == Roles \/ Forward

\* The events whose payload has another shape than the documented one.
Untyped ==
    /\ UNCHANGED pageVars
    /\ \E c \in Conns :
        \/ \E op \in PayloadEvents : NoPayload(c, op)
        \/ \E streamId \in RelayStreamIds, title \in UntypedTitleInputs :
                CreateStream(c, streamId, title)

NextAnyShape == Next \/ Untyped

\* The stream registry under every order of at most MaxEvents events.
Spec == Init /\ [][Next]_vars

\* The same registry under every order of at most MaxDeepEvents events.
SpecDeep == InitDeep /\ [][Next]_vars

\* The forwarding of signalling messages between sockets in every role.
SpecRelay == Init /\ [][NextRelay]_vars

\* The stream registry under events of every payload shape.
SpecAnyShape == Init /\ [][NextAnyShape]_vars

\* ------------------------------------------------------- the browser pages
\* src/src/public/js/host.js and viewer.js. Each page owns one socket. The
\* events a socket carries arrive in the order in which they were sent, in
\* both directions. Media, ICE candidates and the DOM other than the rendered
\* stream list and the stream id field are outside the model; an await on an
\* open RTCPeerConnection is taken to succeed.

\* The stream ids a host types into the stream id field.
PageStreamIds == {<<"a">>, <<"b">>}

\* viewerName, the display name a viewer page draws for itself.
ViewerUser == [defined |-> TRUE, displayName |-> <<"n">>, avatarUrl |-> Null]

\* An event a page emits to the relay.
Emit(op, streamId, to, data) == [op |-> op, streamId |-> streamId, to |-> to, data |-> data]

\* The events for which a page of the kind has a listener that changes the
\* state modelled here.
Listens(kind) ==
    IF kind = "host" THEN {"new-viewer", "receive-answer", "viewer-left"}
    ELSE IF kind = "viewer"
    THEN {"stream-list", "stream-added", "stream-removed", "receive-offer",
          "stream-ended"}
    ELSE {}

RECURSIVE Heard(_, _, _)
\* The messages of msgs that reach socket r, whose page listens to them, in
\* emission order; open is the set of open sockets at emission.
Heard(msgs, r, open) ==
    IF msgs = <<>> THEN <<>>
    ELSE LET m == Head(msgs)
             reaches == r \in open /\ (m.to = ALL \/ m.to = r)
         IN (IF reaches /\ m.ev \in Listens(page[r].kind) THEN <<m>> ELSE <<>>)
            \o Heard(Tail(msgs), r, open)

\* The relay is held to no event budget by the pages; the pages' users are.
PageStep == UNCHANGED relayVars

\* The page of socket c is loaded as the host page.
OpenHostPage(c) ==
    /\ Cardinality({d \in Sockets : page[d].kind = "host"}) < NHostPage
    /\ Connect(c)
    /\ page' = [page EXCEPT ![c].kind = "host"]
    /\ UNCHANGED <<budget, up, down, clicks>>

\* The page of socket c is loaded as the viewer page, which asks for the list.
OpenViewerPage(c) ==
    /\ Cardinality({d \in Sockets : page[d].kind = "viewer"}) < NViewerPage
    /\ Connect(c)
    /\ page' = [page EXCEPT ![c].kind = "viewer"]
    /\ up' = [up EXCEPT ![c] = Append(@, Emit("get-streams", Undefined, 0, ""))]
    /\ UNCHANGED <<budget, down, clicks>>

\* requestMedia: the user grants the camera and the microphone.
RequestMedia(c) ==
    /\ page[c].kind = "host"
    /\ ~page[c].localStream
    /\ page' = [page EXCEPT ![c].localStream = TRUE]
    /\ UNCHANGED <<up, down, clicks>>
    /\ PageStep

\* A pending new-viewer handler: the viewer it makes an offer for, and whether
\* its RTCPeerConnection is the one peerConnections holds for that viewer.
Offering(viewerId, held) == [viewerId |-> viewerId, held |-> held]

\* toggleStream: start with the typed id, or stop and close every connection
\* in peerConnections (an offer being created on one of them is never sent).
ToggleStream(c, typed) ==
    /\ page[c].kind = "host"
    /\ page[c].localStream
    /\ clicks > 0
    /\ clicks' = clicks - 1
    /\ IF ~page[c].streaming
       THEN /\ Truthy(Trim(typed))
            /\ up' = [up EXCEPT ![c] =
                        Append(@, Emit("create-stream", Trim(typed), 0, ""))]
            /\ page' = [page EXCEPT ![c].streaming = TRUE,
                                    ![c].streamIdInput = typed]
       ELSE /\ typed = page[c].streamIdInput
            /\ up' = [up EXCEPT ![c] = Append(@, Emit("end-stream", Undefined, 0, ""))]
            /\ page' = [page EXCEPT ![c].streaming = FALSE,
                                    ![c].peerConnections = {},
                                    ![c].stable = {},
                                    ![c].offering = {t \in @ : ~t.held}]
    /\ UNCHANGED down
    /\ PageStep

\* leaveCurrentStream(sendSignal) on the viewer page p: the page after it and
\* the events it emits.
LeaveCurrentStream(p, sendSignal) ==
    [page |-> [p EXCEPT !.pc = 0, !.currentStreamId = Null, !.currentHostId = 0],
     emits |-> IF sendSignal /\ Truthy(p.currentStreamId)
               THEN <<Emit("viewer-leave-stream", Undefined, 0, "")>>
               ELSE <<>>]

\* joinStream: the user clicks Watch on a card of the rendered list.
JoinStream(c, streamId) ==
    /\ page[c].kind = "viewer"
    /\ streamId \in page[c].list
    /\ page[c].currentStreamId # streamId
    /\ clicks > 0
    /\ clicks' = clicks - 1
    /\ LET l == LeaveCurrentStream(page[c], TRUE)
       IN /\ page' = [page EXCEPT ![c] = [l.page EXCEPT !.currentStreamId = streamId]]
          /\ up' = [up EXCEPT ![c] =
                      @ \o l.emits \o <<Emit("viewer-join-stream", streamId, 0, "")>>]
    /\ UNCHANGED down
    /\ PageStep

\* The user clicks Stop Watching, which is shown once media has arrived over
\* the connection made for an offer.
StopWatching(c) ==
    /\ page[c].kind = "viewer"
    /\ page[c].pc # 0
    /\ clicks > 0
    /\ clicks' = clicks - 1
    /\ LET l == LeaveCurrentStream(page[c], TRUE)
       IN /\ page' = [page EXCEPT ![c] = l.page]
          /\ up' = [up EXCEPT ![c] = @ \o l.emits]
    /\ UNCHANGED down
    /\ PageStep

\* The user closes the page of socket c: its handlers are gone, what was sent
\* to it is lost, and the relay sees the disconnect after the events the page
\* had emitted.
ClosePage(c) ==
    /\ page[c].kind \in {"host", "viewer"}
    /\ clicks > 0
    /\ clicks' = clicks - 1
    /\ page' = [page EXCEPT ![c] = [NoPage EXCEPT !.kind = "closed"]]
    /\ up' = [up EXCEPT ![c] = Append(@, Emit("disconnect", Undefined, 0, ""))]
    /\ down' = [down EXCEPT ![c] = <<>>]
    /\ PageStep

\* The ids of the cards renderStreamList draws.
Rendered(list) == {list[i].streamId : i \in 1..Len(list)}

\* The viewer page p after its listener for message m has run, and the events
\* the listener emits.
ViewerOn(p, m) ==
    IF m.ev = "stream-list"
    THEN [page |-> [p EXCEPT !.list = Rendered(m.body.list)], emits |-> <<>>]
    ELSE IF m.ev = "stream-added"
    THEN [page |-> p, emits |-> <<Emit("get-streams", Undefined, 0, "")>>]
    ELSE IF m.ev = "stream-removed"
    THEN [page |-> IF m.body.streamId = p.currentStreamId
                   THEN LeaveCurrentStream(p, FALSE).page ELSE p,
          emits |-> <<Emit("get-streams", Undefined, 0, "")>>]
    ELSE IF m.ev = "stream-ended"
    THEN IF ~Truthy(m.body.streamId) \/ m.body.streamId = p.currentStreamId
         THEN [page |-> LeaveCurrentStream(p, FALSE).page,
               emits |-> <<Emit("get-streams", Undefined, 0, "")>>]
         ELSE [page |-> p, emits |-> <<>>]
    ELSE \* receive-offer, up to its first await
         IF ~Truthy(p.currentStreamId)
         THEN [page |-> p, emits |-> <<>>]
         ELSE [page |-> [p EXCEPT !.currentHostId = m.body.hostId,
                                  !.pc = m.body.hostId,
                                  !.answering = @ \cup {m.body.hostId}],
               emits |-> <<>>]

\* The host page p after its listener for message m has run.
HostOn(p, m) ==
    IF m.ev = "new-viewer"
    THEN IF ~p.localStream THEN p
         ELSE LET v == m.body.viewerId
              IN [p EXCEPT !.peerConnections = @ \cup {v},
                           !.stable = @ \ {v},
                           !.offering = (@ \ {Offering(v, TRUE)})
                                        \cup (IF Offering(v, TRUE) \in @
                                              THEN {Offering(v, FALSE)} ELSE {})
                                        \cup {Offering(v, TRUE)}]
    ELSE IF m.ev = "receive-answer"
    THEN IF m.body.viewerId \in p.peerConnections
         THEN [p EXCEPT !.stable = @ \cup {m.body.viewerId}]
         ELSE p
    ELSE \* viewer-left
         LET v == m.body.viewerId
         IN IF v \in p.peerConnections
            THEN [p EXCEPT !.peerConnections = @ \ {v},
                           !.stable = @ \ {v},
                           !.offering = @ \ {Offering(v, TRUE)}]
            ELSE p

\* The page of socket c handles the next message that has arrived for it.
Receive(c) ==
    /\ down[c] # <<>>
    /\ down' = [down EXCEPT ![c] = Tail(@)]
    /\ LET m == Head(down[c])
       IN IF page[c].kind = "viewer"
          THEN LET r == ViewerOn(page[c], m)
               IN /\ page' = [page EXCEPT ![c] = r.page]
                  /\ up' = [up EXCEPT ![c] = @ \o r.emits]
          ELSE /\ page' = [page EXCEPT ![c] = HostOn(page[c], m)]
               /\ UNCHANGED up
    /\ UNCHANGED clicks
    /\ PageStep

\* The new-viewer handler of host page c resumes after createOffer and
\* setLocalDescription and emits the offer.
SendOffer(c, task) ==
    /\ task \in page[c].offering
    /\ page' = [page EXCEPT ![c].offering = @ \ {task}]
    /\ up' = [up EXCEPT ![c] =
                Append(@, Emit("host-offer", Undefined, task.viewerId, "p1"))]
    /\ UNCHANGED <<down, clicks>>
    /\ PageStep

\* The receive-offer handler of viewer page c resumes after its awaits: with
\* pc reset to null it throws into its catch, otherwise it emits the answer.
SendAnswer(c, hostId) ==
    /\ hostId \in page[c].answering
    /\ page' = [page EXCEPT ![c].answering = @ \ {hostId}]
    /\ up' = [up EXCEPT ![c] =
                IF page[c].pc = 0 THEN @
                ELSE Append(@, Emit("viewer-answer", Undefined, hostId, "p2"))]
    /\ UNCHANGED <<down, clicks>>
    /\ PageStep

\* The relay handles the next event that has arrived on socket c, and what it
\* emits is queued for the pages it reaches.
Serve(c) ==
    /\ up[c] # <<>>
    /\ LET e == Head(up[c])
       IN \/ e.op = "get-streams" /\ GetStreams(c)
          \/ e.op = "create-stream" /\ CreateStream(c, e.streamId, <<>>)
          \/ e.op = "end-stream" /\ EndStream(c)
          \/ e.op = "viewer-join-stream" /\ ViewerJoinStream(c, e.streamId, ViewerUser)
          \/ e.op = "viewer-leave-stream" /\ ViewerLeaveStream(c)
          \/ e.op = "host-offer" /\ HostOffer(c, e.to, e.data)
          \/ e.op = "viewer-answer" /\ ViewerAnswer(c, e.to, e.data)
          \/ e.op = "disconnect" /\ Disconnect(c)
    /\ up' = [up EXCEPT ![c] = Tail(@)]
    /\ down' = [r \in Sockets |-> down[r] \o Heard(out', r, connected')]
    /\ UNCHANGED <<page, clicks>>

NextPages ==
    \E c \in Sockets :
        \/ OpenHostPage(c)
        \/ OpenViewerPage(c)
        \/ RequestMedia(c)
        \/ \E typed \in PageStreamIds : ToggleStream(c, typed)
        \/ \E streamId \in PageStreamIds : JoinStream(c, streamId)
        \/ StopWatching(c)
        \/ ClosePage(c)
        \/ Receive(c)
        \/ \E v \in Sockets, held \in BOOLEAN : SendOffer(c, Offering(v, held))
        \/ \E hostId \in Sockets : SendAnswer(c, hostId)
        \/ Serve(c)

InitPages == Started /\ budget = MaxPageEvents /\ clicks = MaxClicks

\* The relay and the pages of its hosts and viewers.
SpecPages == InitPages /\ [][NextPages]_vars

\* =================================================================== claims
\* The connections in the viewer set of entry i of a sequence of entries.
ViewersAt(entries, i) == ViewerIds(entries[i].viewers)

\* The positions in a message sequence of the messages ev about stream s
\* addressed to target to.
Sent(msgs, to, ev, s) ==
    {i \in 1..Len(msgs) :
        msgs[i].to = to /\ msgs[i].ev = ev /\ msgs[i].body.streamId = s}

\* v is a string (not undefined, not null).
IsString(v) == v # Undefined /\ v # Null

\* The streams the program holds: every entry a lookup streams[k] can yield.
Live == Entries(streams)

\* C1: the registry contains a stream s if and only if an open connection
\* holds the host role bound to s and is the hostId of the entry of s; so a
\* stream is gone once the connection that created it ended it or closed.
C1_StreamIffLiveHost ==
    \A i \in 1..Len(streams.own) :
        \E c \in connected :
            /\ sock[c].isHost
            /\ sock[c].streamId = streams.own[i].streamId
            /\ streams.own[i].hostId = c

\* C2: each connection is in the viewer set of at most one stream.
C2_AtMostOneViewerSet ==
    \A c \in Conns :
        Cardinality({i \in 1..Len(Live) : c \in ViewersAt(Live, i)}) <= 1

\* C3: no stream's viewer set contains the hostId of that stream.
C3_HostNotOwnViewer ==
    \A i \in 1..Len(Live) : Live[i].hostId \notin ViewersAt(Live, i)

\* C4: no connection is marked both host (isHost with a streamId) and viewer
\* (isViewer with a currentStreamId), so handleDisconnect never runs both of
\* its cleanup branches.
C4_RoleExclusive ==
    \A c \in Conns :
        ~(/\ sock[c].isHost /\ Truthy(sock[c].streamId)
          /\ sock[c].isViewer /\ Truthy(sock[c].currentStreamId))

\* C5: create-stream with a streamId that is empty or only whitespace fails:
\* the requester gets one error-message, the registry (which gains no entry
\* keyed by the empty string) and every connection's role are unchanged, and
\* no stream-created or stream-added is emitted.
C5_BlankIdRejected ==
    [][\A c \in Conns, streamId \in StreamIdInputs, title \in TitleInputs :
        (/\ CreateStream(c, streamId, title)
         /\ IsString(streamId)
         /\ Trim(streamId) = <<>>)
        => /\ streams' = streams
           /\ sock' = sock
           /\ Len(out') = 1
           /\ out'[1].to = c
           /\ out'[1].ev = "error-message"]_vars

\* The title createStream is to give a stream: the title trimmed, or the
\* trimmed id when the title is missing or blank after trimming.
ResolvedTitle(title, streamId) ==
    IF IsString(title) /\ Trim(title) # <<>> THEN Trim(title) ELSE Trim(streamId)

\* C6: right after create-stream from connection c with a non-empty streamId,
\* the list of streams has exactly one entry whose streamId is the trimmed id;
\* its hostId is c and its title is the trimmed title, or the trimmed id when
\* the title is missing or blank after trimming.
C6_CreateThenListed ==
    [][last'.op = "create-stream" =>
        \A c \in {last'.conn}, streamId \in StreamIdInputs, title \in TitleInputs :
            (/\ IsString(streamId)
             /\ streamId # <<>>
             /\ CreateStream(c, streamId, title))
            => LET list == getPublicStreams(streams')
                   at == {i \in 1..Len(list) : list[i].streamId = Trim(streamId)}
               IN /\ Cardinality(at) = 1
                  /\ \A i \in at :
                        /\ list[i].hostId = c
                        /\ list[i].title = ResolvedTitle(title, streamId)]_vars

\* C7: viewer-join-stream naming a streamId that is not in the registry sends
\* one error-message to the requester and changes nothing: the registry with
\* every viewer set and every socket's fields (the requester's viewing binding
\* among them) stay as they were, and no new-viewer, viewer-left or
\* viewer-list-update is emitted.
C7_JoinMissingChangesNothing ==
    [][last'.op = "viewer-join-stream" =>
        \A c \in {last'.conn}, streamId \in StreamIdInputs, user \in UserInputs :
            (/\ ~HasEntry(streams, streamId)
             /\ ViewerJoinStream(c, streamId, user))
            => /\ streams' = streams
               /\ sock' = sock
               /\ Len(out') = 1
               /\ out'[1].to = c
               /\ out'[1].ev = "error-message"]_vars

\* C8: when a connection that hosts stream s (s being the id its last
\* create-stream stored) sends end-stream, the list of streams has no entry
\* for s afterwards and each connection in the viewer set of s is sent exactly
\* one stream-ended for s.
C8_CreateEndRoundTrip ==
    [][\A c \in Conns :
        (/\ EndStream(c)
         /\ sock[c].isHost
         /\ IsString(sock[c].streamId))
        => LET s == sock[c].streamId
           IN /\ s \notin Keys(streams')
              /\ \A i \in 1..Len(Live) :
                    Live[i].streamId = s =>
                        \A v \in ViewersAt(Live, i) :
                            Cardinality(Sent(out', v, "stream-ended", s)) = 1]_vars

\* C9: when a host whose stream s is in the registry disconnects, every
\* connection in the viewer set of s is sent stream-ended, s is absent from
\* the list of streams afterwards, and stream-removed for s is broadcast
\* exactly once.
C9_HostDisconnectCleanup ==
    [][\A c \in Conns :
        \A i \in 1..Len(Live) :
            (/\ Disconnect(c)
             /\ sock[c].isHost
             /\ sock[c].streamId = Live[i].streamId
             /\ Live[i].hostId = c)
            => LET s == Live[i].streamId
               IN /\ s \notin Keys(streams')
                  /\ \A v \in ViewersAt(Live, i) :
                        Sent(out', v, "stream-ended", s) # {}
                  /\ Cardinality(Sent(out', ALL, "stream-removed", s)) = 1]_vars

\* C10: once a connection has disconnected the registry holds no reference
\* to it: it is no stream's hostId and in no stream's viewer set.
C10_NoReferenceAfterDisconnect ==
    \A c \in gone :
        \A i \in 1..Len(Live) :
            Live[i].hostId # c /\ c \notin ViewersAt(Live, i)

\* Socket c views stream s: it is bound to s and is in the viewer set of s.
Viewing(c, s) ==
    /\ sock[c].currentStreamId = s
    /\ \E i \in 1..Len(Live) : Live[i].streamId = s /\ c \in ViewersAt(Live, i)

\* The number of viewers of the entry streams[s] of registry reg.
Count(reg, s) == Len(Get(reg, s).viewers)

\* A viewer-list-update for stream s with count n is among msgs, addressed to h.
ListUpdateSent(msgs, h, s, n) ==
    \E i \in 1..Len(msgs) :
        /\ msgs[i].to = h
        /\ msgs[i].ev = "viewer-list-update"
        /\ msgs[i].body.streamId = s
        /\ msgs[i].body.count = n

\* C11: when a connection that views stream A sends viewer-join-stream for an
\* existing other stream B, A has one viewer less and B one more afterwards,
\* A's host is sent viewer-left for the connection and a viewer-list-update
\* with the reduced count, and B's host is sent new-viewer for it and a
\* viewer-list-update with the increased count.
C11_SwitchMovesViewer ==
    [][last'.op = "viewer-join-stream" =>
        \A c \in {last'.conn}, A \in StreamIdInputs, B \in StreamIdInputs,
           user \in UserInputs :
            (/\ Viewing(c, A)
             /\ B # A
             /\ HasEntry(streams, B)
             /\ ViewerJoinStream(c, B, user))
            => LET hostA == Get(streams, A).hostId
                   hostB == Get(streams, B).hostId
               IN /\ Count(streams', A) = Count(streams, A) - 1
                  /\ Count(streams', B) = Count(streams, B) + 1
                  /\ \E i \in 1..Len(out') :
                        out'[i] = Msg(hostA, "viewer-left", [viewerId |-> c])
                  /\ ListUpdateSent(out', hostA, A, Count(streams, A) - 1)
                  /\ \E i \in 1..Len(out') :
                        out'[i] = Msg(hostB, "new-viewer", [viewerId |-> c])
                  /\ ListUpdateSent(out', hostB, B, Count(streams, B) + 1)]_vars

\* C12: a host-offer from c naming v comes out as exactly one receive-offer,
\* which reaches v and no other connection and carries the offer unchanged
\* with hostId = c; viewer-answer likewise reaches only the named host with
\* viewerId = sender, and ice-candidate only the named target with senderId =
\* sender. No role of sender or target is looked at.
C12_ForwardToNamedOnly ==
    [][\A c \in Conns, t \in Conns, p \in PayloadInputs :
        /\ HostOffer(c, t, p) =>
            /\ out' = <<Msg(t, "receive-offer", [offer |-> p, hostId |-> c])>>
            /\ Recipients(out'[1]) = {t} \cap connected
        /\ ViewerAnswer(c, t, p) =>
            /\ out' = <<Msg(t, "receive-answer", [answer |-> p, viewerId |-> c])>>
            /\ Recipients(out'[1]) = {t} \cap connected
        /\ IceCandidate(c, t, p) =>
            /\ out' = <<Msg(t, "ice-candidate", [candidate |-> p, senderId |-> c])>>
            /\ Recipients(out'[1]) = {t} \cap connected]_vars

\* C12 witness: an offer has been forwarded between two open sockets while the
\* registry is empty, so the sender hosts nothing and the target views nothing.
C12_Witness ==
    /\ last.op = "host-offer"
    /\ streams = EmptyRegistry
    /\ Len(out) = 1
    /\ out[1].to # last.conn
    /\ out[1].body.hostId = last.conn
    /\ Recipients(out[1]) = {out[1].to}

\* C13: host-offer, viewer-answer and ice-candidate change neither the
\* registry (viewer sets included) nor any socket's role fields and emit no
\* error-message; when the named target is not an open connection, what they
\* emit reaches nobody, the sender included.
C13_ForwardIsPureRouting ==
    [][\A c \in Conns, t \in Conns, p \in PayloadInputs :
        (HostOffer(c, t, p) \/ ViewerAnswer(c, t, p) \/ IceCandidate(c, t, p))
        => /\ streams' = streams
           /\ sock' = sock
           /\ \A i \in 1..Len(out') : out'[i].ev # "error-message"
           /\ t \notin connected =>
                \A i \in 1..Len(out') : Recipients(out'[i]) = {}]_vars

\* C13 witness: a candidate was forwarded to a socket that has disconnected,
\* and it reaches nobody.
C13_Witness ==
    /\ last.op = "ice-candidate"
    /\ Len(out) = 1
    /\ out[1].to \in gone
    /\ Recipients(out[1]) = {}

\* C14: on end-stream by the host of a stream, stream-ended is sent to every
\* connection in that stream's viewer set and to none outside it, and
\* stream-removed for the stream is broadcast exactly once.
C14_EndNotifiesViewersOnly ==
    [][\A c \in Conns :
        \A i \in 1..Len(Live) :
            (/\ EndStream(c)
             /\ sock[c].isHost
             /\ sock[c].streamId = Live[i].streamId)
            => LET s == Live[i].streamId
               IN /\ \A v \in ViewersAt(Live, i) :
                        Sent(out', v, "stream-ended", s) # {}
                  /\ \A k \in 1..Len(out') :
                        out'[k].ev = "stream-ended" =>
                            out'[k].to \in ViewersAt(Live, i)
                  /\ Cardinality({k \in 1..Len(out') :
                        out'[k].ev = "stream-removed"}) = 1
                  /\ Sent(out', ALL, "stream-removed", s) # {}]_vars

\* The set of the messages of a sequence.
MsgSet(msgs) == {msgs[i] : i \in 1..Len(msgs)}

\* C15: the disconnect of a connection that is a host leaves the registry and
\* emits the set of notifications that end-stream from it would in the same
\* state, and the disconnect of a connection that is a viewer leaves the
\* registry and emits the notifications that viewer-leave-stream would.
C15_DisconnectAsRoleOperation ==
    [][\A c \in Conns :
        Disconnect(c) =>
            /\ (sock[c].isHost) =>
                LET e == EndStreamEffect(streams, sock[c])
                IN /\ streams' = e.reg
                   /\ MsgSet(out') = MsgSet(e.msgs)
            /\ (sock[c].isViewer) =>
                LET e == LeaveEffect(streams, c, sock[c])
                IN /\ streams' = e.reg
                   /\ MsgSet(out') = MsgSet(e.msgs)]_vars

\* Socket c is in no stream's viewer set.
InNoViewerSet(c) == \A i \in 1..Len(Live) : c \notin ViewersAt(Live, i)

\* C16: viewer-leave-stream from a connection that is in no stream's viewer
\* set changes nothing in the registry and emits nothing (no error-message, no
\* viewer-left, no viewer-list-update), also when it is sent again.
C16_LeaveWhenNotViewing ==
    [][\A c \in Conns :
        (ViewerLeaveStream(c) /\ InNoViewerSet(c))
        => /\ streams' = streams
           /\ out' = <<>>]_vars

\* The viewer entries of every stream other than s, in registry order.
OtherViewers(reg, s) ==
    LET es == Entries(reg)
    IN [i \in {k \in 1..Len(es) : es[k].streamId # s} |-> es[i].viewers]

\* C17: when a connection that views stream s sends viewer-join-stream for s
\* again, the viewer set of s holds the same connection ids and the same count
\* afterwards, no other stream's viewer set changes, no viewer-left is
\* emitted, and the metadata stored for the connection is that of this join.
C17_RejoinKeepsMembership ==
    [][last'.op = "viewer-join-stream" =>
        \A c \in {last'.conn}, s \in StreamIdInputs, user \in UserInputs :
            (Viewing(c, s) /\ ViewerJoinStream(c, s, user))
            => LET before == Get(streams, s).viewers
                   after == Get(streams', s).viewers
               IN /\ Len(after) = Len(before)
                  /\ ViewerIds(after) = ViewerIds(before)
                  /\ OtherViewers(streams', s) = OtherViewers(streams, s)
                  /\ \A k \in 1..Len(out') : out'[k].ev # "viewer-left"
                  /\ \A k \in 1..Len(after) :
                        after[k].socketId = c =>
                            /\ after[k].displayName =
                                 (IF user.defined /\ Truthy(user.displayName)
                                  THEN user.displayName ELSE Null)
                            /\ after[k].avatarUrl =
                                 (IF user.defined /\ Truthy(user.avatarUrl)
                                  THEN user.avatarUrl ELSE Null)]_vars

\* C17 witness: a viewer has joined again the stream it was viewing, this time
\* with a name; it is still the stream's only viewer and the name is stored.
C17_Witness ==
    /\ last.op = "viewer-join-stream"
    /\ last.path = "rejoined"
    /\ \E i \in 1..Len(Live) :
        /\ Live[i].streamId = sock[last.conn].currentStreamId
        /\ Len(Live[i].viewers) = 1
        /\ Live[i].viewers[1].socketId = last.conn
        /\ Live[i].viewers[1].displayName = <<"n">>

\* C18: end-stream from a connection that is not a host changes nothing in
\* the registry and emits nothing (no stream-ended, stream-removed or
\* error-message); and an end-stream that ended a stream leaves its sender
\* not a host, so the same event sent again removes nothing and notifies no one.
C18_EndByNonHostIgnored ==
    [][last'.op = "end-stream" =>
        \A c \in {last'.conn} :
            EndStream(c) =>
                /\ ~sock[c].isHost => (streams' = streams /\ out' = <<>>)
                /\ last'.path = "ended" => ~sock'[c].isHost]_vars

\* C18 witness: a socket that ended its stream has sent end-stream once more,
\* and that event was ignored without a message.
C18_Witness ==
    /\ last.op = "end-stream"
    /\ last.path = "ignored"
    /\ sock[last.conn].streamId = Null
    /\ ~sock[last.conn].isHost
    /\ out = <<>>

\* C19: create-stream with an id whose entry exists replaces the entry: its
\* hostId and title are the new creator's and its viewer set is empty; no
\* stream-ended (and no stream-removed) goes to the previous viewers, and
\* nothing is addressed to the previous host.
C19_OverwriteLastWriterWins ==
    [][(last'.op = "create-stream" /\ last'.path = "overwrote") =>
        \A c \in {last'.conn}, streamId \in StreamIdInputs, title \in TitleInputs :
            (/\ IsString(streamId)
             /\ streamId # <<>>
             /\ HasEntry(streams, Trim(streamId))
             /\ sock'[c].streamId = Trim(streamId)
             /\ CreateStream(c, streamId, title))
            => LET s == Trim(streamId)
                   old == Get(streams, s)
                   new == Get(streams', s)
               IN /\ new.hostId = c
                  /\ new.title = ResolvedTitle(title, streamId)
                  /\ new.viewers = <<>>
                  /\ \A k \in 1..Len(out') :
                        /\ out'[k].ev # "stream-ended"
                        /\ out'[k].ev # "stream-removed"
                        /\ out'[k].to = old.hostId => old.hostId = c]_vars

\* C19 witness: a create-stream has replaced an entry that had a viewer; the
\* new entry has no viewers while a socket is still bound to the stream as its
\* viewer, and neither stream-ended nor stream-removed was emitted.
C19_Witness ==
    /\ last.op = "create-stream"
    /\ last.path = "overwrote"
    /\ \E i \in 1..Len(Live) :
        /\ Live[i].streamId = sock[last.conn].streamId
        /\ Live[i].hostId = last.conn
        /\ Live[i].viewers = <<>>
        /\ \E v \in connected :
            sock[v].isViewer /\ sock[v].currentStreamId = Live[i].streamId
    /\ \A k \in 1..Len(out) : out[k].ev \notin {"stream-ended", "stream-removed"}

\* C20: while the entry of a stream s stays in the registry, from its creation
\* to the end-stream or host disconnect that removes it, the hostId recorded
\* for s never changes.
C20_HostImmutable ==
    [][\A i \in 1..Len(Live) : \A j \in 1..Len(Live') :
        Live[i].streamId = Live'[j].streamId
        => Live'[j].hostId = Live[i].hostId]_vars

\* C20 amended: the hostId recorded for a stream s changes only in a
\* create-stream step that names s again, and then becomes the sender of that
\* create-stream.
C20_HostChangesOnlyByOverwrite ==
    [][\A i \in 1..Len(Live) : \A j \in 1..Len(Live') :
        (/\ Live[i].streamId = Live'[j].streamId
         /\ Live'[j].hostId # Live[i].hostId)
        => /\ last'.op = "create-stream"
           /\ last'.conn = Live'[j].hostId
           /\ sock'[last'.conn].streamId = Live'[j].streamId]_vars

\* C20 witness: a create-stream by one socket has replaced the entry of a
\* stream that another open socket created and is still bound to as host.
C20_Witness ==
    /\ last.op = "create-stream"
    /\ last.path = "overwrote"
    /\ \E i \in 1..Len(Live) :
        /\ Live[i].streamId = sock[last.conn].streamId
        /\ Live[i].hostId = last.conn
        /\ \E h \in connected \ {last.conn} :
            sock[h].isHost /\ sock[h].streamId = Live[i].streamId

\* C21: stream ids are trimmed alike for storage and for lookup: a
\* viewer-join-stream whose streamId is the key of an existing stream up to
\* surrounding whitespace puts the sender in that stream's viewer set, the key
\* a create-stream with the same padded id would address.
C21_JoinTrimsLikeCreate ==
    [][last'.op = "viewer-join-stream" =>
        \A c \in {last'.conn}, streamId \in StreamIdInputs, user \in UserInputs :
            (/\ IsString(streamId)
             /\ HasEntry(streams, TrimmedId(streamId))
             /\ ViewerJoinStream(c, streamId, user))
            => /\ HasEntry(streams', TrimmedId(streamId))
               /\ c \in ViewerIds(Get(streams', TrimmedId(streamId)).viewers)]_vars

\* The sockets other than c keep their fields, and the registry is unchanged.
OthersUntouched(c) ==
    /\ \A d \in Conns \ {c} : sock'[d] = sock[d]
    /\ streams' = streams

\* The messages are a single error-message, addressed to socket c.
OneErrorTo(msgs, c) ==
    /\ Len(msgs) = 1
    /\ msgs[1].ev = "error-message"
    /\ msgs[1].to = c

\* C22: a failing request, that is a create-stream without a stream id or a
\* viewer-join-stream naming a stream that is not in the registry, produces
\* exactly one error-message, addressed to the sender; nothing is sent to any
\* other connection, and no other connection's role or membership changes.
C22_FailureIsOneErrorToSender ==
    [][last'.op \in {"create-stream", "viewer-join-stream"} =>
        \A c \in {last'.conn} :
            /\ \A streamId \in {Undefined, <<>>}, title \in TitleInputs :
                    CreateStream(c, streamId, title)
                    => OneErrorTo(out', c) /\ OthersUntouched(c)
            /\ \A streamId \in StreamIdInputs, user \in UserInputs :
                    (~HasEntry(streams, streamId) /\ ViewerJoinStream(c, streamId, user))
                    => OneErrorTo(out', c) /\ OthersUntouched(c)]_vars

\* C23: no client event is fatal to the relay: whatever the event and the shape
\* of its payload (no payload object, a missing field, a title that is not a
\* string), no exception escapes its handler and the relay goes on processing.
C23_NoEventIsFatal == crashed = FALSE

\* C24: a create-stream that succeeds emits, in this order, stream-created
\* {streamId, title} to the creating host only, stream-added {streamId, title}
\* to all connections, and a viewer-list-update with count 0 and an empty
\* viewer list to the creating host; and nothing else.
C24_CreateEmitsInOrder ==
    [][(last'.op = "create-stream" /\ last'.path \in {"created", "overwrote"}) =>
        \A c \in {last'.conn}, streamId \in StreamIdInputs, title \in TitleInputs :
            (/\ sock'[c].streamId = Trim(streamId)
             /\ CreateStream(c, streamId, title))
            => LET s == Trim(streamId)
                   t == ResolvedTitle(title, streamId)
               IN out' = <<Msg(c, "stream-created", [streamId |-> s, title |-> t]),
                           Msg(ALL, "stream-added", [streamId |-> s, title |-> t]),
                           Msg(c, "viewer-list-update",
                               [streamId |-> s, count |-> 0, viewers |-> <<>>])>>]_vars

\* C24 witness: a stream was created while a second socket was open; the host
\* was sent the acknowledgement first and the empty viewer list last, and the
\* stream-added between them went to every open socket.
C24_Witness ==
    /\ last.op = "create-stream"
    /\ last.path = "created"
    /\ Len(out) = 3
    /\ out[1].ev = "stream-created" /\ Recipients(out[1]) = {last.conn}
    /\ out[2].ev = "stream-added" /\ Recipients(out[2]) = Conns
    /\ out[3].ev = "viewer-list-update" /\ Recipients(out[3]) = {last.conn}
    /\ out[3].body.count = 0

\* C25: a viewer-join-stream that succeeds sends the host of the stream
\* exactly one new-viewer carrying the joiner's id, followed by a
\* viewer-list-update for the stream whose count is the number of distinct
\* connections in its viewer set, the joiner included: the k-th distinct
\* joiner of a stream nobody has left is shown count k.
C25_JoinNotifiesHostWithCount ==
    [][last'.op = "viewer-join-stream" =>
        \A c \in {last'.conn}, s \in StreamIdInputs, user \in UserInputs :
            (/\ HasEntry(streams, s)
             /\ ViewerJoinStream(c, s, user))
            => LET h == Get(streams, s).hostId
                   before == ViewerIds(Get(streams, s).viewers)
                   n == Len(out')
               IN /\ n >= 2
                  /\ out'[n - 1] = Msg(h, "new-viewer", [viewerId |-> c])
                  /\ Cardinality({i \in 1..n : out'[i].ev = "new-viewer"}) = 1
                  /\ out'[n].ev = "viewer-list-update"
                  /\ out'[n].to = h
                  /\ out'[n].body.streamId = s
                  /\ out'[n].body.count = Cardinality(before \cup {c})
                  /\ ViewerIds(Get(streams', s).viewers) = before \cup {c}]_vars

\* C25 witness: the second of two distinct connections has joined a stream,
\* and the viewer-list-update that follows its new-viewer shows count 2.
C25_Witness ==
    /\ last.op = "viewer-join-stream"
    /\ last.path = "joined"
    /\ Len(out) = 2
    /\ out[1].ev = "new-viewer" /\ out[1].body.viewerId = last.conn
    /\ out[2].ev = "viewer-list-update" /\ out[2].body.count = 2
    /\ out[2].to = out[1].to

\* The entries of every stream other than s, in registry order.
OtherEntries(reg, s) ==
    LET es == Entries(reg)
    IN [i \in {k \in 1..Len(es) : es[k].streamId # s} |-> es[i]]

\* C26: viewer-leave-stream from a connection that is in the viewer set of
\* stream s removes it from that set, emits viewer-left with its id and then a
\* viewer-list-update with the reduced count, both to the host of s and
\* nothing else, clears the connection's viewer role, and leaves every other
\* stream with its viewer set unchanged.
C26_LeaveRemovesViewer ==
    [][last'.op = "viewer-leave-stream" =>
        \A c \in {last'.conn} :
            \A i \in 1..Len(Live) :
                (/\ c \in ViewersAt(Live, i)
                 /\ ViewerLeaveStream(c))
                => LET s == Live[i].streamId
                       h == Live[i].hostId
                   IN /\ HasEntry(streams', s)
                      /\ c \notin ViewerIds(Get(streams', s).viewers)
                      /\ Len(out') = 2
                      /\ out'[1] = Msg(h, "viewer-left", [viewerId |-> c])
                      /\ out'[2].ev = "viewer-list-update"
                      /\ out'[2].to = h
                      /\ out'[2].body.streamId = s
                      /\ out'[2].body.count = Len(Live[i].viewers) - 1
                      /\ ~sock'[c].isViewer
                      /\ ~Truthy(sock'[c].currentStreamId)
                      /\ OtherEntries(streams', s) = OtherEntries(streams, s)]_vars

\* list has exactly one {streamId, title, hostId} element for each entry of
\* entries, and no other element.
ListsEachOnce(list, entries) ==
    /\ Len(list) = Len(entries)
    /\ \A j \in 1..Len(list) : DOMAIN list[j] = {"streamId", "title", "hostId"}
    /\ \A i \in 1..Len(entries) :
            Cardinality({j \in 1..Len(list) :
                /\ list[j].streamId = entries[i].streamId
                /\ list[j].title = entries[i].title
                /\ list[j].hostId = entries[i].hostId}) = 1

\* C27: listing is a read-only snapshot: the reply to get-streams goes to the
\* requester only and has exactly one {streamId, title, hostId} element per
\* stream in the registry, without viewer detail; no registry or socket state
\* changes; and the REST query returns the same list in the same state.
C27_ListIsSnapshot ==
    [][/\ \A c \in Conns :
            GetStreams(c) =>
                /\ Len(out') = 1
                /\ out'[1].to = c
                /\ out'[1].ev = "stream-list"
                /\ ListsEachOnce(out'[1].body.list, Live)
                /\ UNCHANGED <<streams, sock, connected, gone>>
       /\ GetApiStreams =>
                /\ Len(out') = 1
                /\ out'[1].to = HTTP
                /\ ListsEachOnce(out'[1].body.streams, Live)
                /\ UNCHANGED <<streams, sock, connected, gone>>]_vars

\* C29: a stream entry leaves the registry, and stream-ended for it is sent,
\* only in an end-stream or disconnect step of the connection that is the
\* entry's hostId at that moment; no event of another connection (one that
\* earlier created a stream under the same id included) removes it.
C29_OnlyHostRemoves ==
    [][\A i \in 1..Len(Live) :
        LET s == Live[i].streamId
        IN (\/ \A j \in 1..Len(Live') : Live'[j].streamId # s
            \/ \E k \in 1..Len(out') :
                    out'[k].ev = "stream-ended" /\ out'[k].body.streamId = s)
           => /\ last'.op \in {"end-stream", "disconnect"}
              /\ last'.conn = Live[i].hostId]_vars

\* Nothing is in flight between the pages and the relay, and no handler of a
\* page is suspended at an await.
Quiet ==
    \A c \in Sockets :
        /\ up[c] = <<>>
        /\ down[c] = <<>>
        /\ page[c].offering = {}
        /\ page[c].answering = {}

\* C28: the handshake of a viewer that joined an existing stream completes
\* when neither it nor the host leaves, ends the stream or disconnects: once
\* every message has been delivered and every handler has run, the host of
\* each stream has received, and applied to its connection for that viewer,
\* the answer of every connection in the stream's viewer set.
C28_HandshakeCompletes ==
    Quiet =>
        \A i \in 1..Len(Live) : \A v \in ViewersAt(Live, i) :
            v \in page[Live[i].hostId].stable

\* C30: the viewer page handles only offers for the stream it has selected:
\* whenever it accepts a receive-offer and sets currentHostId while the relay
\* has it in the viewer set of the stream in its currentStreamId, the offer
\* comes from the host of that stream, also when a switch from another stream
\* has left offers of that stream's host in flight.
C30_OfferFromSelectedStream ==
    [][\A c \in Sockets :
        (/\ Receive(c)
         /\ page[c].kind = "viewer"
         /\ Head(down[c]).ev = "receive-offer"
         /\ page'[c].currentHostId = Head(down[c]).body.hostId
         /\ HasEntry(streams, page[c].currentStreamId)
         /\ c \in ViewerIds(Get(streams, page[c].currentStreamId).viewers))
        => Get(streams, page[c].currentStreamId).hostId
             = Head(down[c]).body.hostId]_vars

\* C31: the relay's binding of a viewer agrees with the registry: when an
\* open connection's currentStreamId is a stream id s, stream s exists and its
\* viewer set contains the connection, also after s was ended or re-created.
C31_BindingMatchesRegistry ==
    \A c \in connected :
        IsString(sock[c].currentStreamId)
        => /\ HasEntry(streams, sock[c].currentStreamId)
           /\ c \in ViewerIds(Get(streams, sock[c].currentStreamId).viewers)

\* Socket v is in the viewer set of a stream of the registry reg whose hostId
\* is h.
ViewerOfHost(reg, v, h) ==
    \E i \in 1..Len(Entries(reg)) :
        /\ Entries(reg)[i].hostId = h
        /\ v \in ViewersAt(Entries(reg), i)

\* C32: a viewer-left {viewerId: v} is sent to host h only if v was in the
\* viewer set of a stream whose hostId is h right before the event that
\* caused it; no host is told that a viewer left who was not in its stream.
C32_ViewerLeftOnlyForMembers ==
    [][\A i \in 1..Len(out') :
        out'[i].ev = "viewer-left"
        => ViewerOfHost(streams, out'[i].body.viewerId, out'[i].to)]_vars

\* The viewer set of the existing stream k differs between the registries
\* before and after.
ViewerSetChanged(before, after, k) ==
    /\ HasEntry(before, k)
    /\ HasEntry(after, k)
    /\ Get(before, k).viewers # Get(after, k).viewers

\* C33: every viewer-list-update goes only to the hostId of the stream it
\* names and carries the size of that stream's viewer set, and every change
\* of an existing stream's viewer set is followed by one that the stream's
\* host receives; so, with no message in flight, the last count the host of
\* a stream received is the size of the stream's viewer set.
C33_ListUpdateTracksViewerSet ==
    [][/\ \A i \in 1..Len(out') :
            out'[i].ev = "viewer-list-update"
            => /\ HasEntry(streams', out'[i].body.streamId)
               /\ out'[i].to = Get(streams', out'[i].body.streamId).hostId
               /\ out'[i].body.count = Count(streams', out'[i].body.streamId)
       /\ \A i \in 1..Len(Entries(streams')) :
            LET k == Entries(streams')[i].streamId
            IN ViewerSetChanged(streams, streams', k)
               => /\ ListUpdateSent(out', Get(streams', k).hostId, k,
                                    Count(streams', k))
                  /\ Get(streams', k).hostId \in connected']_vars

\* C34: the host page holds no peer connection while it is not streaming:
\* after toggleStream stopped the stream peerConnections stays empty until the
\* next start, also when a new-viewer that the relay emitted before it
\* handled the end-stream arrives afterwards.
C34_NoPeerConnectionsWhenStopped ==
    \A c \in Sockets :
        (page[c].kind = "host" /\ ~page[c].streaming)
        => page[c].peerConnections = {}

\* C35: the viewer page and the relay agree on what is watched: with nothing
\* in flight, the page's currentStreamId is a stream id s exactly when the
\* relay has the page's socket in the viewer set of stream s.
C35_PageAndRelayAgree ==
    Quiet =>
        \A c \in connected : page[c].kind = "viewer" =>
            \A s \in PageStreamIds :
                (page[c].currentStreamId = s)
                <=> (HasEntry(streams, s)
                     /\ c \in ViewerIds(Get(streams, s).viewers))
====
